---------------------------- MODULE Spec2Model ----------------------------
(***************************************************************************)
(* Model of weibull.js: record parsing (parseTTF), the censored Weibull    *)
(* likelihood (negLogLik), the Nelder-Mead optimizer (nelderMead), the     *)
(* fitter (fitWeibull), the bootstrap interval estimator (bootstrapCI)     *)
(* and the cost-model integration (integrateR, CPM_num, CCM_num,           *)
(* CPUT_num).                                                              *)
(*                                                                         *)
(* JavaScript Numbers are modelled as binary floating-point values with    *)
(* the special values of IEEE-754 (NaN, +Infinity, -Infinity) and a        *)
(* mantissa of Prec bits instead of 53: a finite value is m * 2^e with     *)
(* m = 0 or 2^(Prec-1) <= |m| < 2^Prec, rounded to nearest (ties to even)  *)
(* after every operation, overflowing to an infinity above exponent EMax   *)
(* and underflowing to zero below -EMax.  The zero is unsigned.            *)
(***************************************************************************)
EXTENDS Integers, Sequences, FiniteSets, TLC

\* ------------------------------------------------------------------------
\* Number format
\* ------------------------------------------------------------------------
Prec == 8
EMax == 48

NaN  == [k |-> "nan", m |-> 0, e |-> 0]
PInf == [k |-> "inf", m |-> 1, e |-> 0]
NInf == [k |-> "inf", m |-> -1, e |-> 0]
Zero == [k |-> "fin", m |-> 0, e |-> 0]

IsNaN(a) == a.k = "nan"
IsInf(a) == a.k = "inf"
isFinite(a) == a.k = "fin"

Abs(n) == IF n < 0 THEN -n ELSE n
Sgn(n) == IF n < 0 THEN -1 ELSE IF n > 0 THEN 1 ELSE 0

\* The number of bits of n >= 0: the least k with n < 2^k.  The integers
\* the operations form have fewer than 4 * Prec bits.
BitLen(n) ==
  CHOOSE k \in 0..(4 * Prec) : n \div 2^k = 0 /\ (k = 0 \/ n \div 2^(k - 1) # 0)

\* The finite value s * m * 2^e with m of Prec bits, or what it overflows
\* or underflows to.
Pack(s, m, e) ==
  IF e > EMax THEN (IF s < 0 THEN NInf ELSE PInf)
  ELSE IF e < -EMax THEN Zero
  ELSE [k |-> "fin", m |-> s * m, e |-> e]

\* s * q * 2^e for a rounded mantissa q <= 2^Prec.
RoundUp(s, q, e) ==
  IF q = 2^Prec THEN Pack(s, 2^(Prec - 1), e + 1) ELSE Pack(s, q, e)

\* s * (q + r / (2 * half)) * 2^e rounded to nearest, ties to even.
RoundQ(s, q, r, half, e) ==
  RoundUp(s, IF r > half \/ (r = half /\ q % 2 = 1) THEN q + 1 ELSE q, e)

\* s * a * 2^e for a > 0 of n bits.
RoundN(s, a, e, n) ==
  IF n <= Prec THEN Pack(s, a * 2^(Prec - n), e - (Prec - n))
  ELSE RoundQ(s, a \div 2^(n - Prec), a % 2^(n - Prec), 2^(n - Prec - 1),
              e + (n - Prec))

\* The value s * a * 2^e (s = +1/-1, a >= 0) rounded to the format.
Round(s, a, e) == IF a = 0 THEN Zero ELSE RoundN(s, a, e, BitLen(a))

Norm(m, e) == Round(Sgn(m), Abs(m), e)

\* An integer literal or integer-valued Number.
FInt(n) == Norm(n, 0)

FNeg(a) == IF a = NaN THEN NaN ELSE [a EXCEPT !.m = -a.m]

\* a + b
FAdd(a, b) ==
  IF a = NaN THEN NaN
  ELSE IF b = NaN THEN NaN
  ELSE IF a.k = "inf" THEN (IF b.k = "inf" /\ b.m # a.m THEN NaN ELSE a)
  ELSE IF b.k = "inf" THEN b
  ELSE IF a.m = 0 THEN b
  ELSE IF b.m = 0 THEN a
  ELSE LET hi == IF a.e >= b.e THEN a ELSE b
           lo == IF a.e >= b.e THEN b ELSE a
           d  == hi.e - lo.e
       IN IF d > Prec + 1 THEN hi
          ELSE Norm(hi.m * 2^d + lo.m, lo.e)

\* a - b
FSub(a, b) == FAdd(a, FNeg(b))

\* a * b
FMul(a, b) ==
  IF a = NaN THEN NaN
  ELSE IF b = NaN THEN NaN
  ELSE IF a.k = "inf" \/ b.k = "inf"
       THEN (IF a.m = 0 \/ b.m = 0 THEN NaN
             ELSE IF Sgn(a.m) = Sgn(b.m) THEN PInf ELSE NInf)
  ELSE Norm(a.m * b.m, a.e + b.e)

\* a / b
FDiv(a, b) ==
  IF a = NaN THEN NaN
  ELSE IF b = NaN THEN NaN
  ELSE IF a.k = "inf"
       THEN (IF b.k = "inf" THEN NaN
             ELSE IF Sgn(a.m) * (IF b.m < 0 THEN -1 ELSE 1) > 0 THEN PInf ELSE NInf)
  ELSE IF b.k = "inf" THEN Zero
  ELSE IF b.m = 0
       THEN (IF a.m = 0 THEN NaN ELSE IF a.m > 0 THEN PInf ELSE NInf)
  ELSE LET num == Abs(a.m) * 2^(Prec + 2)
           q   == num \div Abs(b.m)
           st  == IF num % Abs(b.m) = 0 THEN 0 ELSE 1
       IN Round(Sgn(a.m) * Sgn(b.m), 2 * q + st, a.e - b.e - (Prec + 3))

\* a < b on finite values
FinLt(a, b) ==
  IF a.m = 0 THEN b.m > 0
  ELSE IF b.m = 0 THEN a.m < 0
  ELSE IF (a.m < 0) # (b.m < 0) THEN a.m < 0
  ELSE IF a.m > 0 THEN a.e < b.e \/ (a.e = b.e /\ a.m < b.m)
  ELSE a.e > b.e \/ (a.e = b.e /\ a.m < b.m)

\* a < b
FLt(a, b) ==
  IF a = NaN THEN FALSE
  ELSE IF b = NaN THEN FALSE
  ELSE IF a.k = "inf" THEN a.m < 0 /\ ~(b.k = "inf" /\ b.m < 0)
  ELSE IF b.k = "inf" THEN b.m > 0
  ELSE FinLt(a, b)

\* a === b
FEq(a, b) == a # NaN /\ b # NaN /\ a = b

\* a <= b
FLe(a, b) == FLt(a, b) \/ FEq(a, b)

\* Math.max(a, b)
FMax(a, b) ==
  IF a = NaN THEN NaN
  ELSE IF b = NaN THEN NaN
  ELSE IF FLt(a, b) THEN b ELSE a

\* Math.abs(a)
FAbs(a) == IF a = NaN THEN NaN ELSE [a EXCEPT !.m = Abs(a.m)]

RECURSIVE ISqrt(_, _, _)
\* The largest r' >= r, built from the bits b..0, with r'^2 <= n.
ISqrt(n, r, b) ==
  IF b < 0 THEN r
  ELSE IF (r + 2^b) * (r + 2^b) <= n THEN ISqrt(n, r + 2^b, b - 1)
  ELSE ISqrt(n, r, b - 1)

\* The root of n * 2^e (e even) from the integer root r of n.
SqrtRound(n, e, r) ==
  Round(1, 2 * r + (IF r * r = n THEN 0 ELSE 1), e \div 2 - 1)

\* The root of m * 2^e, e even.
SqrtEven(m, e) ==
  SqrtRound(m * 2^(Prec + 4), e - (Prec + 4),
            ISqrt(m * 2^(Prec + 4), 0, Prec + 4))

\* Math.sqrt(a)
FSqrt(a) ==
  IF a = NaN THEN NaN
  ELSE IF a.m < 0 THEN NaN
  ELSE IF a.k = "inf" THEN PInf
  ELSE IF a.m = 0 THEN Zero
  ELSE IF a.e % 2 # 0 THEN SqrtEven(2 * a.m, a.e - 1)
  ELSE SqrtEven(a.m, a.e)

\* Math.floor(a) of a finite value, as an integer
FFloor(a) ==
  IF a.e >= 0 THEN a.m * 2^a.e
  ELSE IF a.e < -2 * Prec THEN (IF a.m < 0 THEN -1 ELSE 0)
  ELSE a.m \div 2^(-a.e)

\* Math.ceil(a) of a finite value, as an integer
FCeil(a) == -FFloor(FNeg(a))


\* Whether a finite value is an integer, and whether it is an odd one.
IsInteger(a) == a.e >= 0 \/ (a.e >= -Prec /\ a.m % 2^(-a.e) = 0)
IsOddInteger(a) ==
  IF a.e > 0 \/ a.e < -Prec THEN FALSE
  ELSE a.m % 2^(-a.e) = 0 /\ (a.m \div 2^(-a.e)) % 2 = 1

\* Math.LN2
LN2 == FDiv(FInt(693147), FInt(1000000))

\* Math.log(a).  ECMAScript fixes the results for NaN, negative, zero and
\* infinite arguments and leaves the others "implementation-approximated":
\* here log2 of the mantissa 1+f is approximated by f + (11/32) f (1-f).
FLog(a) ==
  IF a = NaN THEN NaN
  ELSE IF a.m < 0 THEN NaN
  ELSE IF a.k = "inf" THEN PInf
  ELSE IF a.m = 0 THEN NInf
  ELSE LET T == 2^(Prec - 1)
           F == a.m - T
           D == 32 * T * T
           N == (a.e + Prec - 1) * D + 32 * F * T + 11 * F * (T - F)
       IN FMul(FDiv(FInt(N), FInt(D)), LN2)

\* 2^i * (1 + g - (11/32) g (1 - g)) for g = G / 2^Prec
ExpFrac(i, G) ==
  Round(1, 32 * 2^Prec * 2^Prec + 32 * G * 2^Prec - 11 * G * (2^Prec - G),
        i - (5 + 2 * Prec))

\* 2^y from the integer part i of y
ExpSplit(y, i) ==
  ExpFrac(i, FFloor(FMul(FSub(y, FInt(i)), FInt(2^Prec))))

\* 2^y
Exp2(y) ==
  IF y.e > 8 THEN (IF y.m > 0 THEN PInf ELSE Zero)
  ELSE ExpSplit(y, FFloor(y))

\* Math.exp(a), approximated on finite arguments by 2^(i+f) with
\* 2^f = 1 + f - (11/32) f (1-f), for a / LN2 = i + f, 0 <= f < 1.
FExp(a) ==
  IF a = NaN THEN NaN
  ELSE IF a.k = "inf" THEN (IF a.m > 0 THEN PInf ELSE Zero)
  ELSE Exp2(FDiv(a, LN2))

\* Math.pow(x, y): the special cases of Number::exponentiate (an operand
\* that is NaN, zero or infinite), and exp(y * log|x|) for the others.
powSpecial(x, y) ==
  IF y = NaN THEN NaN
  ELSE IF y.k = "fin" /\ y.m = 0 THEN FInt(1)
  ELSE IF x = NaN THEN NaN
  ELSE IF x.k = "inf" /\ x.m > 0 THEN (IF y.m > 0 THEN PInf ELSE Zero)
  ELSE IF x.k = "inf"
       THEN (IF y.m > 0
             THEN (IF y.k = "fin" /\ IsOddInteger(y) THEN NInf ELSE PInf)
             ELSE Zero)
  ELSE IF x.m = 0 THEN (IF y.m > 0 THEN Zero ELSE PInf)
  ELSE IF FEq(FAbs(x), FInt(1)) THEN NaN
  ELSE IF FLt(FInt(1), FAbs(x)) = (y.m > 0) THEN PInf ELSE Zero

\* x and y finite and not zero
powFinite(x, y) ==
  IF x.m > 0 THEN FExp(FMul(y, FLog(x)))
  ELSE IF ~IsInteger(y) THEN NaN
  ELSE IF IsOddInteger(y) THEN FNeg(FExp(FMul(y, FLog(FAbs(x)))))
  ELSE FExp(FMul(y, FLog(FAbs(x))))

\* Math.pow(x, y)
FPow(x, y) ==
  IF x.k = "fin" /\ y.k = "fin" /\ x.m # 0 /\ y.m # 0 THEN powFinite(x, y)
  ELSE powSpecial(x, y)

\* ------------------------------------------------------------------------
\* State
\* ------------------------------------------------------------------------
VARIABLES
  engine,    \* the order Array.prototype.sort works in: it differs between
             \* engines where the comparison function is not consistent
  recs,      \* the records the input text is written from: lines of fields
  text,      \* parseTTF's argument, a sequence of characters
  parsed,    \* parseTTF's result, once it has returned
  nllArgs,   \* negLogLik's arguments
  nllRes,    \* negLogLik's result and the observation terms it evaluated
  nm,        \* a nelderMead call: options, objective, simplex, fx, iter
  fitArgs,   \* fitWeibull's arguments
  fitRes,    \* fitWeibull's result with the optimizer call it made
  caller,    \* the caller's failure and suspension arrays
  runs,      \* the bootstrapCI calls in progress
  cost       \* an integrateR or cost-rate call and its result

parseVars == <<recs, text, parsed>>
nllVars   == <<nllArgs, nllRes>>
nmVars    == <<nm>>
fitVars   == <<fitArgs, fitRes>>
bootVars  == <<caller, runs>>
costVars  == <<cost>>
vars == <<engine, recs, text, parsed, nllArgs, nllRes, nm, fitArgs, fitRes,
          caller, runs, cost>>

\* ------------------------------------------------------------------------
\* parseTTF
\* ------------------------------------------------------------------------
\* Strings are sequences of one-character strings.
WhiteSpace == {" ", "\n"}
Digits == {"0", "1", "2", "3", "4", "5", "6", "7", "8", "9"}

DigitVal(c) ==
  CASE c = "0" -> 0 [] c = "1" -> 1 [] c = "2" -> 2 [] c = "3" -> 3
    [] c = "4" -> 4 [] c = "5" -> 5 [] c = "6" -> 6 [] c = "7" -> 7
    [] c = "8" -> 8 [] c = "9" -> 9

\* c.toUpperCase() on the letters of the record codes
UpperChar(c) ==
  CASE c = "f" -> "F" [] c = "s" -> "S" [] OTHER -> c

\* s.toUpperCase()
toUpperCase(s) == [i \in 1..Len(s) |-> UpperChar(s[i])]

RECURSIVE SplitFrom(_, _, _, _)
\* s.split(sep), the part being read in cur and the finished parts in acc
SplitFrom(s, sep, cur, acc) ==
  IF s = <<>> THEN Append(acc, cur)
  ELSE IF Head(s) = sep THEN SplitFrom(Tail(s), sep, <<>>, Append(acc, cur))
  ELSE SplitFrom(Tail(s), sep, Append(cur, Head(s)), acc)

split(s, sep) == SplitFrom(s, sep, <<>>, <<>>)

RECURSIVE trimStart(_)
trimStart(s) ==
  IF s # <<>> /\ Head(s) \in WhiteSpace THEN trimStart(Tail(s)) ELSE s

RECURSIVE trimEnd(_)
trimEnd(s) ==
  IF s # <<>> /\ s[Len(s)] \in WhiteSpace
  THEN trimEnd(SubSeq(s, 1, Len(s) - 1)) ELSE s

\* s.trim()
trim(s) == trimEnd(trimStart(s))

RECURSIVE DigitPrefix(_, _)
\* The value of the longest prefix of digits of s, after the digits read
\* so far (their value in n).
DigitPrefix(s, n) ==
  IF s # <<>> /\ Head(s) \in Digits
  THEN DigitPrefix(Tail(s), 10 * n + DigitVal(Head(s)))
  ELSE n

\* parseFloat(s) on strings without sign, point or exponent: the leading
\* white space is skipped and the longest prefix of digits is the value;
\* NaN when there is no such prefix.
parseFloat(s) ==
  LET t == trimStart(s) IN
  IF t # <<>> /\ Head(t) \in Digits THEN FInt(DigitPrefix(t, 0)) ELSE NaN

\* parseLine comparing the code as written, without toUpperCase.
parseLine_CaseSensitive(ln, acc) ==
  LET parts == split(ln, ",") IN
  IF Len(parts) < 2 THEN acc
  ELSE LET t    == parseFloat(parts[1])
           code == trim(parts[2])
       IN IF IsNaN(t) THEN acc
          ELSE IF code = <<"F">>
               THEN [acc EXCEPT !.failures = Append(@, t)]
          ELSE IF code = <<"S">>
               THEN [acc EXCEPT !.susp = Append(@, t)]
          ELSE acc

\* The body of the loop over the lines (lines 11-17), on the result so far.
parseLine(ln, acc) ==
  LET parts == split(ln, ",") IN
  IF Len(parts) < 2 THEN acc
  ELSE LET t    == parseFloat(parts[1])
           code == toUpperCase(trim(parts[2]))
       IN IF IsNaN(t) THEN acc
          ELSE IF code = <<"F">>
               THEN [acc EXCEPT !.failures = Append(@, t)]
          ELSE IF code = <<"S">>
               THEN [acc EXCEPT !.susp = Append(@, t)]
          ELSE acc

RECURSIVE parseLines(_, _)
parseLines(lines, acc) ==
  IF lines = <<>> THEN acc
  ELSE parseLines(Tail(lines), parseLine(Head(lines), acc))

\* text.split('\n').map(s=>s.trim()).filter(Boolean)
nonBlankLines(t) ==
  LET raw == split(t, "\n")
      trimmed == [i \in 1..Len(raw) |-> trim(raw[i])]
  IN SelectSeq(trimmed, LAMBDA s : s # <<>>)

parseTTF(t) ==
  parseLines(nonBlankLines(t), [failures |-> <<>>, susp |-> <<>>])

\* --- inputs of parseTTF ---
MaxLines == 2

TimeFields == { <<>>, <<" ">>, <<"1">>, <<"2">>, <<" ", "1">>,
                <<"1", "F">>, <<"F">> }
CodeFields == { <<>>, <<"F">>, <<"f">>, <<"S">>, <<"s">>,
                <<" ", "s", " ">>, <<"1">> }
ExtraFields == { <<>>, <<"F">> }

\* A line is one, two or three fields.
InputLines ==
  { <<a>> : a \in TimeFields \cup CodeFields }
  \cup { <<a, b>> : a \in TimeFields, b \in CodeFields }
  \cup { <<a, b, c>> : a \in {<<"2">>}, b \in {<<"s">>, <<"F">>},
                       c \in ExtraFields }

RECURSIVE SeqsUpTo(_, _)
\* The sequences of at most n elements of S
SeqsUpTo(S, n) ==
  IF n = 0 THEN { <<>> }
  ELSE LET shorter == SeqsUpTo(S, n - 1)
       IN shorter \cup { Append(q, x) : q \in shorter, x \in S }

RECURSIVE Join(_, _)
\* The parts written one after the other with sep between them
Join(parts, sep) ==
  IF parts = <<>> THEN <<>>
  ELSE IF Len(parts) = 1 THEN parts[1]
  ELSE parts[1] \o <<sep>> \o Join(Tail(parts), sep)

\* The text of records: fields joined by commas, lines by line breaks.
TextOf(r) == Join([i \in 1..Len(r) |-> Join(r[i], ",")], "\n")

\* A call not made (its arguments) or not returned (its result).
None == [set |-> FALSE]

ParseIdle == recs = <<>> /\ text = <<>> /\ parsed = None
NllIdle   == nllArgs = None /\ nllRes = None
NmIdle    == nm = None
FitIdle   == fitArgs = None /\ fitRes = None
BootIdle  == caller = None /\ runs = <<>>
CostIdle  == cost = None

\* The records of the text "100,F\n150,F\n200,S\n80,F".
ExampleRecs ==
  << << <<"1", "0", "0">>, <<"F">> >>, << <<"1", "5", "0">>, <<"F">> >>,
     << <<"2", "0", "0">>, <<"S">> >>, << <<"8", "0">>, <<"F">> >> >>

InitParse ==
  /\ engine = "insertion"
  /\ recs \in SeqsUpTo(InputLines, MaxLines) \cup {ExampleRecs}
  /\ text = TextOf(recs)
  /\ parsed = None
  /\ NllIdle /\ NmIdle /\ FitIdle /\ BootIdle /\ CostIdle

\* The call parseTTF(text).
Parse ==
  /\ ~parsed.set
  /\ parsed' = [set |-> TRUE] @@ parseTTF(text)
  /\ UNCHANGED <<engine, recs, text, nllVars, nmVars, fitVars, bootVars, costVars>>

NextParse == Parse

SpecParse == InitParse /\ [][NextParse]_vars


\* ------------------------------------------------------------------------
\* Reliability functions and likelihood
\* ------------------------------------------------------------------------
\* The literals 1e-6 and 1e12
Eps      == FDiv(FInt(1), FInt(1000000))
Sentinel == FMul(FInt(1000000), FInt(1000000))

\* R_weibull(t, beta, eta) = Math.exp(-Math.pow(t/eta, beta))
R_weibull(t, beta, eta) == FExp(FNeg(FPow(FDiv(t, eta), beta)))

\* The term a failure time t adds to ll (line 73).
failureTerm(t, beta, eta) ==
  FSub(FAdd(FLog(FDiv(beta, eta)),
            FMul(FSub(beta, FInt(1)), FLog(FDiv(t, eta)))),
       FPow(FDiv(t, eta), beta))

\* The term a suspension time s adds to ll (line 78).
suspTerm(s, beta, eta) == FNeg(FPow(FDiv(s, eta), beta))

RECURSIVE sumFailures(_, _, _, _)
\* for(const t of failures) ll += ...  (a sum that is NaN stays NaN)
sumFailures(failures, beta, eta, ll) ==
  IF ll = NaN \/ failures = <<>> THEN ll
  ELSE sumFailures(Tail(failures), beta, eta,
                   FAdd(ll, failureTerm(Head(failures), beta, eta)))

RECURSIVE sumSusp(_, _, _, _)
\* for(const s of susp) ll += ...  (a sum that is NaN stays NaN)
sumSusp(susp, beta, eta, ll) ==
  IF ll = NaN \/ susp = <<>> THEN ll
  ELSE sumSusp(Tail(susp), beta, eta,
               FAdd(ll, suspTerm(Head(susp), beta, eta)))

\* Whether negLogLik leaves at line 69.
invalidRegion(beta, eta) == FLe(beta, Eps) \/ FLe(eta, Eps)

\* The guard with < in the place of <=.
invalidRegion_Strict(beta, eta) == FLt(beta, Eps) \/ FLt(eta, Eps)

\* negLogLik with the guard of invalidRegion_Strict.
negLogLik_Strict(params, failures, susp) ==
  LET beta == params[1]
      eta  == params[2]
  IN IF invalidRegion_Strict(beta, eta) THEN Sentinel
     ELSE FNeg(sumSusp(susp, beta, eta,
                       sumFailures(failures, beta, eta, Zero)))

\* negLogLik(params, failures, susp)
negLogLik(params, failures, susp) ==
  LET beta == params[1]
      eta  == params[2]
  IN IF invalidRegion(beta, eta) THEN Sentinel
     ELSE FNeg(sumSusp(susp, beta, eta,
                       sumFailures(failures, beta, eta, Zero)))

\* The number of observation terms a call of negLogLik evaluates.
termsEvaluated(params, failures, susp) ==
  IF invalidRegion(params[1], params[2]) THEN 0
  ELSE Len(failures) + Len(susp)

\* --- inputs of negLogLik ---
MaxObs == 2

\* Observation times: negative, zero, positive, infinite.
Times == { FInt(-1), Zero, FInt(1), FInt(3), PInf }

\* The next Number above a positive one.
NextUp(a) == Round(1, a.m + 1, a.e)

ParamValues ==
  { NaN, NInf, FInt(-1), Zero, Eps, NextUp(Eps), FInt(1),
    FDiv(FInt(3), FInt(2)), PInf }

\* The datasets of at most n observations over the times T.
Datasets(T, n) ==
  { d \in [failures : SeqsUpTo(T, n), susp : SeqsUpTo(T, n)] :
      Len(d.failures) + Len(d.susp) <= n }

InitNll ==
  /\ engine = "insertion"
  /\ \E beta \in ParamValues, eta \in ParamValues, d \in Datasets(Times, MaxObs) :
       nllArgs = [set |-> TRUE, params |-> <<beta, eta>>,
                  failures |-> d.failures, susp |-> d.susp]
  /\ nllRes = None
  /\ ParseIdle /\ NmIdle /\ FitIdle /\ BootIdle /\ CostIdle

\* The call negLogLik(params, failures, susp).
EvalNll ==
  /\ ~nllRes.set
  /\ nllRes' = [set   |-> TRUE,
                value |-> negLogLik(nllArgs.params, nllArgs.failures,
                                    nllArgs.susp),
                terms |-> termsEvaluated(nllArgs.params, nllArgs.failures,
                                         nllArgs.susp)]
  /\ UNCHANGED <<engine, nllArgs, parseVars, nmVars, fitVars, bootVars, costVars>>

NextNll == EvalNll

SpecNll == InitNll /\ [][NextNll]_vars

\* ------------------------------------------------------------------------
\* nelderMead
\* ------------------------------------------------------------------------
\* The value of an objective at the point p.  The optimizer takes any
\* function of a point; the model's objectives are fitWeibull's closure
\* over a dataset ("nll"), a quadratic bowl around a centre ("bowl") and a
\* slope without minimum ("slope").
Sq(a) == FMul(a, a)
Bowl(p, c) == FAdd(Sq(FSub(p[1], c[1])), Sq(FSub(p[2], c[2])))
Eval(f, p) ==
  CASE f.kind = "nll"   -> negLogLik(p, f.failures, f.susp)
    [] f.kind = "bowl"  -> Bowl(p, f.c)
    [] f.kind = "slope" -> FNeg(FAdd(p[1], p[2]))

\* The defaults of options.maxIter and options.tol (lines 28-29)
DefaultMaxIter == 2000
DefaultTol == FDiv(FInt(1), FInt(1000000))

\* a || b on Numbers: b when a is 0 or NaN
OrElse(a, b) == IF a.k = "nan" \/ (a.k = "fin" /\ a.m = 0) THEN b ELSE a

\* The coefficients of line 30
Alpha == FInt(1)
Gamma == FInt(2)
Rho   == FDiv(FInt(1), FInt(2))
Sigma == FDiv(FInt(1), FInt(2))
Tenth == FDiv(FInt(1), FInt(10))

\* The simplex of line 31
initialSimplex(x0) ==
  << x0,
     << FAdd(x0[1], FMul(Tenth, FMax(FInt(1), FAbs(x0[1])))), x0[2] >>,
     << x0[1], FAdd(x0[2], FMul(Tenth, FMax(FInt(1), FAbs(x0[2])))) >> >>

\* Whether the comparison function (a,b) => a[0]-b[0] of line 34 puts the
\* value a before the value b: a result that is not a number counts as 0.
Before(a, b) == FLt(FSub(a, b), Zero)

\* The sorts of an array of three elements: the first two in order p, q,
\* then the third put in its place from the right (insertion) or merged in
\* from the left (merge).  They agree wherever the comparison is an order.
Engines == {"insertion", "merge"}

insertThird(fx, p, q) ==
  IF Before(fx[3], fx[q])
  THEN (IF Before(fx[3], fx[p]) THEN <<3, p, q>> ELSE <<p, 3, q>>)
  ELSE <<p, q, 3>>

mergeThird(fx, p, q) ==
  IF Before(fx[3], fx[p]) THEN <<3, p, q>>
  ELSE IF Before(fx[3], fx[q]) THEN <<p, 3, q>>
  ELSE <<p, q, 3>>

sortThird(eng, fx, p, q) ==
  IF eng = "merge" THEN mergeThird(fx, p, q) ELSE insertThird(fx, p, q)

\* The order in which line 34 leaves the indices 1..3 on the engine eng.
sortIdx(eng, fx) ==
  IF Before(fx[2], fx[1]) THEN sortThird(eng, fx, 2, 1)
  ELSE sortThird(eng, fx, 1, 2)

\* a + c * (b - a), by coordinate
Toward(a, c, b) ==
  << FAdd(a[1], FMul(c, FSub(b[1], a[1]))),
     FAdd(a[2], FMul(c, FSub(b[2], a[2]))) >>

\* Lines 58-59: the standard deviation of the values around fmean
deviation(fx, fmean) ==
  FSqrt(FDiv(FAdd(FAdd(Sq(FSub(fx[1], fmean)), Sq(FSub(fx[2], fmean))),
                  Sq(FSub(fx[3], fmean))),
             FInt(3)))

spread(fx) == deviation(fx, FDiv(FAdd(FAdd(fx[1], fx[2]), fx[3]), FInt(3)))

\* The objective values of the three vertices of a simplex
evalAll(f, s) == << Eval(f, s[1]), Eval(f, s[2]), Eval(f, s[3]) >>

\* Lines 35-36: the simplex or the values in the order idx
reorder(q, idx) == << q[idx[1]], q[idx[2]], q[idx[3]] >>

\* Line 37: the centroid of the first two vertices
centroid(s) ==
  << FDiv(FAdd(s[1][1], s[2][1]), FInt(2)),
     FDiv(FAdd(s[1][2], s[2][2]), FInt(2)) >>

\* Line 38: the reflection of the vertex w through x0m
reflection(x0m, w) ==
  << FAdd(x0m[1], FMul(Alpha, FSub(x0m[1], w[1]))),
     FAdd(x0m[2], FMul(Alpha, FSub(x0m[2], w[2]))) >>

\* Lines 53-54: the simplex shrunk toward its first vertex
shrunk(s) ==
  << s[1], Toward(s[1], Sigma, s[2]), Toward(s[1], Sigma, s[3]) >>

\* What an iteration leaves: the simplex and values after the sort
\* (sorted, sfx), the reflection, the branch taken, the simplex and values
\* at the end of the iteration, and whether line 60 breaks.
iterated(s0, v0, xr, fxr, step, s1, v1, tol) ==
  [sorted |-> s0, sfx |-> v0, xr |-> xr, fxr |-> fxr, step |-> step,
   simplex |-> s1, fx |-> v1, brk |-> FLt(spread(v1), tol)]

\* Lines 52-56: neither the reflection nor the contraction is taken.
nmShrink(f, tol, s0, v0, xr, fxr, sh) ==
  iterated(s0, v0, xr, fxr, "shrink", sh, evalAll(f, sh), tol)

\* Lines 48-56, with the contraction xc and its value
nmContracted(f, tol, s0, v0, xr, fxr, xc, fxc) ==
  IF FLt(fxc, v0[3])
  THEN iterated(s0, v0, xr, fxr, "contract", << s0[1], s0[2], xc >>,
                << v0[1], v0[2], fxc >>, tol)
  ELSE nmShrink(f, tol, s0, v0, xr, fxr, shrunk(s0))

nmContract(f, tol, s0, v0, x0m, xr, fxr, xc) ==
  nmContracted(f, tol, s0, v0, xr, fxr, xc, Eval(f, xc))

\* Lines 41-44, with the expansion xe and its value
nmExpanded(tol, s0, v0, xr, fxr, xe, fxe) ==
  IF FLt(fxe, fxr)
  THEN iterated(s0, v0, xr, fxr, "expand", << s0[1], s0[2], xe >>,
                << v0[1], v0[2], fxe >>, tol)
  ELSE iterated(s0, v0, xr, fxr, "reflect", << s0[1], s0[2], xr >>,
                << v0[1], v0[2], fxr >>, tol)

nmExpand(f, tol, s0, v0, xr, fxr, xe) ==
  nmExpanded(tol, s0, v0, xr, fxr, xe, Eval(f, xe))

\* Lines 40-57, with the reflection xr and its value
nmReflected(f, tol, s0, v0, x0m, xr, fxr) ==
  IF FLt(fxr, v0[1])
  THEN nmExpand(f, tol, s0, v0, xr, fxr, Toward(x0m, Gamma, xr))
  ELSE IF FLt(fxr, v0[2])
  THEN iterated(s0, v0, xr, fxr, "reflect", << s0[1], s0[2], xr >>,
                << v0[1], v0[2], fxr >>, tol)
  ELSE nmContract(f, tol, s0, v0, x0m, xr, fxr, Toward(x0m, Rho, s0[3]))

nmReflect(f, tol, s0, v0, x0m, xr) ==
  nmReflected(f, tol, s0, v0, x0m, xr, Eval(f, xr))

nmCentroid(f, tol, s0, v0, x0m) ==
  nmReflect(f, tol, s0, v0, x0m, reflection(x0m, s0[3]))

nmSorted(f, tol, s0, v0) == nmCentroid(f, tol, s0, v0, centroid(s0))

nmOrdered(f, tol, s, v, idx) ==
  nmSorted(f, tol, reorder(s, idx), reorder(v, idx))

\* One iteration of the loop (lines 34-60) from the simplex s with the
\* objective values v, on the engine eng.
nmIterate(eng, f, tol, s, v) == nmOrdered(f, tol, s, v, sortIdx(eng, v))

\* The index of line 62, from 1
bestIdx(fx) ==
  IF FLe(fx[1], fx[2]) /\ FLe(fx[1], fx[3]) THEN 1
  ELSE IF FLe(fx[2], fx[3]) THEN 2 ELSE 3

\* options.maxIter || 2000 and options.tol || 1e-6.  An option that is
\* absent is written as the falsy value of its kind: 0 iterations, NaN.
maxIterOf(options) ==
  IF options.maxIter = 0 THEN DefaultMaxIter ELSE options.maxIter
tolOf(options) == OrElse(options.tol, DefaultTol)

\* A call in its loop: its engine, its objective and tolerance, and the
\* loop variables simplex and fx, with whether line 60 has broken out.
loopStart(eng, f, tol, s) ==
  [eng |-> eng, f |-> f, tol |-> tol, simplex |-> s, fx |-> evalAll(f, s),
   brk |-> FALSE]

\* The call with the loop variables an iteration r leaves
loopState(c, r) ==
  [c EXCEPT !.simplex = r.simplex, !.fx = r.fx, !.brk = r.brk]

RECURSIVE nmLoop(_, _)
RECURSIVE nmRest(_, _, _, _)
\* The loop of line 33 run for at most n more iterations from the state c:
\* the first half of them, then the rest.
nmLoop(c, n) ==
  IF n > 1 /\ ~c.brk
  THEN nmRest(c, nmLoop(c, n \div 2), n \div 2, n - n \div 2)
  ELSE IF n <= 0 \/ c.brk THEN c
  ELSE loopState(c, nmIterate(c.eng, c.f, c.tol, c.simplex, c.fx))

\* The rest of the iterations from the state mid that h iterations from c
\* have left.  When mid is c again the iterations repeat with a period
\* that divides h, and the state after rest more of them is the state
\* after rest % h.
nmRest(c, mid, h, rest) ==
  IF mid = c THEN nmLoop(mid, rest % h) ELSE nmLoop(mid, rest)

\* Lines 62-63
nmResult(st) ==
  [x |-> st.simplex[bestIdx(st.fx)], fx |-> st.fx[bestIdx(st.fx)]]

nmStart(eng, f, tol, maxIter, s) ==
  nmResult(nmLoop(loopStart(eng, f, tol, s), maxIter))

\* nelderMead(f, x0, options) on the engine eng
nelderMead(eng, f, x0, options) ==
  nmStart(eng, f, tolOf(options), maxIterOf(options), initialSimplex(x0))

\* --- a call of nelderMead, one iteration at a time ---
MaxIterOpt == 3

Objectives ==
  { [kind |-> "nll", failures |-> <<FInt(1), FInt(3)>>, susp |-> <<FInt(3)>>],
    [kind |-> "nll", failures |-> <<Zero, FInt(3)>>, susp |-> <<>>],
    [kind |-> "bowl", c |-> <<FInt(3), FInt(2)>>],
    [kind |-> "slope"],
    [kind |-> "nll", failures |-> <<FInt(1)>>, susp |-> <<FInt(-1)>>] }

StartPoints ==
  { <<Zero, Zero>>, <<FInt(1), FInt(1)>>,
    <<FInt(2), FInt(1)>> }

Tolerances == { NaN, FDiv(FInt(1), FInt(100000000)), FInt(1) }

\* The state of a call at line 33, before the first iteration
nmCall(f, x0, options, s) ==
  [set |-> TRUE, pc |-> "loop", f |-> f, x0 |-> x0, options |-> options,
   simplex |-> s, fx |-> evalAll(f, s), iter |-> 0, brk |-> FALSE]

\* The state of the call after an iteration r
nmAfter(c, r) ==
  [set |-> TRUE, pc |-> "loop", f |-> c.f, x0 |-> c.x0,
   options |-> c.options, simplex |-> r.simplex, fx |-> r.fx,
   iter |-> IF r.brk THEN c.iter ELSE c.iter + 1, brk |-> r.brk,
   last |-> r]

InitNm ==
  /\ engine \in Engines
  /\ \E f \in Objectives, x0 \in StartPoints, n \in 0..MaxIterOpt,
        tol \in Tolerances :
       nm = nmCall(f, x0, [maxIter |-> n, tol |-> tol], initialSimplex(x0))
  /\ ParseIdle /\ NllIdle /\ FitIdle /\ BootIdle /\ CostIdle

\* One iteration of the loop of line 33.
NmIter ==
  /\ nm.set /\ nm.pc = "loop"
  /\ ~nm.brk /\ nm.iter < maxIterOf(nm.options)
  /\ nm' = nmAfter(nm, nmIterate(engine, nm.f, tolOf(nm.options),
                                 nm.simplex, nm.fx))
  /\ UNCHANGED <<engine, parseVars, nllVars, fitVars, bootVars, costVars>>

\* The loop is left (by its condition or by the break) and lines 62-63
\* return the result.
NmReturn ==
  /\ nm.set /\ nm.pc = "loop"
  /\ nm.brk \/ nm.iter >= maxIterOf(nm.options)
  /\ nm' = [nm EXCEPT !.pc = "returned"] @@ [result |-> nmResult(nm)]
  /\ UNCHANGED <<engine, parseVars, nllVars, fitVars, bootVars, costVars>>

NextNm == NmIter \/ NmReturn

SpecNm == InitNm /\ [][NextNm]_vars

\* ------------------------------------------------------------------------
\* fitWeibull
\* ------------------------------------------------------------------------
RECURSIVE reduceSum(_, _)
\* failures.reduce((a,b)=>a+b, acc)
reduceSum(failures, acc) ==
  IF failures = <<>> THEN acc
  ELSE reduceSum(Tail(failures), FAdd(acc, Head(failures)))

\* The fallback scale 1000 of lines 86 and 87
FallbackScale == FInt(1000)

\* Line 86
meanF(failures) ==
  IF Len(failures) > 0
  THEN FDiv(reduceSum(failures, Zero), FInt(Len(failures)))
  ELSE FallbackScale

\* Line 87 with meanF alone as the second coordinate.
startPoint_NoFallback(failures) ==
  << FDiv(FInt(3), FInt(2)), meanF(failures) >>

\* Line 87: x0 = [1.5, meanF || 1000]
startPoint(failures) ==
  << FDiv(FInt(3), FInt(2)), OrElse(meanF(failures), FallbackScale) >>

\* The options of line 88
FitMaxIter == 1500
FitTol == FDiv(FInt(1), FInt(100000000))
fitOptions == [maxIter |-> FitMaxIter, tol |-> FitTol]

\* The objective of line 88: negLogLik closed over the dataset
objectiveOf(failures, susp) ==
  [kind |-> "nll", failures |-> failures, susp |-> susp]

\* Line 89 with eta returned as the optimizer left it.
clamped_EtaUnclamped(res) ==
  [beta |-> FMax(Eps, res.x[1]), eta |-> res.x[2], fx |-> res.fx]

\* Line 89: the optimizer's point with each coordinate under Math.max
clamped(res) ==
  [beta |-> FMax(Eps, res.x[1]), eta |-> FMax(Eps, res.x[2]), fx |-> res.fx]

\* fitWeibull(failures, susp) on the engine eng
fitWeibull(eng, failures, susp) ==
  clamped(nelderMead(eng, objectiveOf(failures, susp), startPoint(failures),
                     fitOptions))

\* --- a call of fitWeibull ---
\* The largest finite Number
MaxValue == [k |-> "fin", m |-> 2^Prec - 1, e |-> EMax]

\* Failure and suspension times: negative, zero, positive, the largest,
\* infinite.
FitTimes == { FInt(-1), Zero, FInt(1), FInt(3), MaxValue, PInf, NInf }

\* Suspension times enter the objective only, never the start point.
SuspTimes == { FInt(-1), Zero, FInt(3), PInf }

\* The datasets of at most n observations given to fitWeibull.
FitDatasets(n) ==
  { d \in [failures : SeqsUpTo(FitTimes, n), susp : SeqsUpTo(SuspTimes, n)] :
      Len(d.failures) + Len(d.susp) <= n }

\* What a call leaves: the start point and options it gave the optimizer,
\* the optimizer's result, and the estimate it returns.
fitReturn(x0, options, res) ==
  [set |-> TRUE, x0 |-> x0, options |-> options, res |-> res]
    @@ clamped(res)

fitCall(eng, failures, susp, x0, options) ==
  fitReturn(x0, options,
            nelderMead(eng, objectiveOf(failures, susp), x0, options))

InitFit ==
  /\ engine \in Engines
  /\ \E d \in FitDatasets(MaxObs) :
       fitArgs = [set |-> TRUE, failures |-> d.failures, susp |-> d.susp]
  /\ fitRes = None
  /\ ParseIdle /\ NllIdle /\ NmIdle /\ BootIdle /\ CostIdle

\* The call fitWeibull(failures, susp).
Fit ==
  /\ ~fitRes.set
  /\ fitRes' = fitCall(engine, fitArgs.failures, fitArgs.susp,
                       startPoint(fitArgs.failures), fitOptions)
  /\ UNCHANGED <<engine, fitArgs, parseVars, nllVars, nmVars, bootVars,
                 costVars>>

NextFit == Fit

SpecFit == InitFit /\ [][NextFit]_vars

\* ------------------------------------------------------------------------
\* bootstrapCI
\* ------------------------------------------------------------------------
\* The least number of events of line 97 and the period of the yield of
\* line 108
MinEvents == 3
YieldEvery == 50

\* null, and the value of an array at an index it does not have
Null == [null |-> TRUE]
Undefined == [k |-> "undefined"]

\* Lines 94-96: the events of the two arrays
eventsFrom(failures, susp) ==
  [i \in 1..Len(failures) |-> [t |-> failures[i], censored |-> FALSE]]
    \o [i \in 1..Len(susp) |-> [t |-> susp[i], censored |-> TRUE]]

\* Lines 100-103: the sample of the indices draw, one for each event, each
\* Math.floor(Math.random()*events.length)
sampleOf(events, draw) == [j \in 1..Len(events) |-> events[draw[j] + 1]]

\* Lines 104-105: the times of the sample with the flag c
timesOf(sample, c) ==
  LET kept == SelectSeq(sample, LAMBDA x : x.censored = c)
  IN [j \in 1..Len(kept) |-> kept[j].t]

\* Line 106 on a sample
fitSample(eng, sample) ==
  fitWeibull(eng, timesOf(sample, FALSE), timesOf(sample, TRUE))

RECURSIVE fitSamples(_, _, _, _)
\* The fit of the sample of each of the draws, in their order
fitSamples(eng, events, draws, acc) ==
  IF draws = <<>> THEN acc
  ELSE fitSamples(eng, events, Tail(draws),
                  Append(acc, fitSample(eng, sampleOf(events, Head(draws)))))

\* Line 107
pushFinite(boots, res) ==
  IF isFinite(res.beta) /\ isFinite(res.eta)
  THEN Append(boots, <<res.beta, res.eta>>) ELSE boots

\* array[i], with i counted from 0
at(array, i) == IF i \in 0..(Len(array) - 1) THEN array[i + 1] ELSE Undefined

RECURSIVE insertNumber(_, _)
\* The ascending sequence q with the number v after the elements that are
\* not above it
insertNumber(q, v) ==
  IF q = <<>> THEN <<v>>
  ELSE IF FLt(v, q[Len(q)])
       THEN Append(insertNumber(SubSeq(q, 1, Len(q) - 1), v), q[Len(q)])
       ELSE Append(q, v)

RECURSIVE sortNumbers(_, _)
\* q.sort((a,b)=>a-b) on finite numbers, appended in order to acc
sortNumbers(q, acc) ==
  IF q = <<>> THEN acc
  ELSE sortNumbers(Tail(q), insertNumber(acc, Head(q)))

\* Lines 110-111
column(boots, k) == [j \in 1..Len(boots) |-> boots[j][k]]

\* Lines 112-113
lowOf(conf, n) == FFloor(FMul(FDiv(FSub(FInt(1), conf), FInt(2)), FInt(n)))
highOf(conf, n) ==
  FCeil(FMul(FSub(FInt(1), FDiv(FSub(FInt(1), conf), FInt(2))), FInt(n)))

Max(a, b) == IF a >= b THEN a ELSE b
Min(a, b) == IF a <= b THEN a ELSE b

\* Lines 115-116 on a sorted column
interval(sorted, low, high) ==
  << at(sorted, Max(0, low)), at(sorted, Min(Len(sorted) - 1, high - 1)) >>

\* Lines 110-118
bootResult(boots, conf) ==
  [null |-> FALSE,
   beta_ci |-> interval(sortNumbers(column(boots, 1), <<>>),
                        lowOf(conf, Len(boots)), highOf(conf, Len(boots))),
   eta_ci |-> interval(sortNumbers(column(boots, 2), <<>>),
                       lowOf(conf, Len(boots)), highOf(conf, Len(boots))),
   raw |-> boots]

\* --- calls of bootstrapCI, from one yield to the next ---
\* A call is a record: its arguments nboot and conf, the events it built,
\* the draws it will be given (tape: the draws of replicate i are those at
\* position i % Len(tape)), the loop variables i and boots, where it stands
\* (pc: "idle" before the call, "yielded" at line 108, "done" once
\* returned), its result, the draws, fits and yields it has made, and the
\* kinds of steps other tasks have taken while it was at a yield (between).

\* The events a replicate draws from, for a call that holds its own events
\* and a caller whose arrays are c: those of the caller's arrays as they
\* are now.
eventsOf_Live(run, c) == eventsFrom(c.failures, c.susp)

\* The events a replicate draws from: the array built at lines 94-96.
eventsOf(run, c) == run.events

\* The call after replicate i, whose fit is res (lines 100-107).
replicated(run, res) ==
  [run EXCEPT !.i = @ + 1, !.boots = pushFinite(@, res),
              !.draws = @ + Len(run.events), !.fits = @ + 1]

\* Lines 110-118: the loop is over.
returned(run) ==
  [run EXCEPT !.pc = "done", !.result = bootResult(run.boots, run.conf)]

\* Line 108 after replicate i
yielded(run) == [run EXCEPT !.pc = "yielded", !.yields = @ + 1]

RECURSIVE runSegment(_, _)
\* The loop of line 99 from replicate run.i to the next yield or to the
\* return; fits holds the fit of the sample of each position of the tape.
runSegment(run, fits) ==
  IF run.i >= run.nboot THEN returned(run)
  ELSE IF run.i % YieldEvery = 0
       THEN yielded(replicated(run, fits[(run.i % Len(run.tape)) + 1]))
  ELSE runSegment(replicated(run, fits[(run.i % Len(run.tape)) + 1]), fits)

\* Lines 94-98 with the call going on from two events.
called_FromTwo(run, events) ==
  IF Len(events) < MinEvents - 1
  THEN [run EXCEPT !.events = events, !.pc = "done", !.result = Null]
  ELSE [run EXCEPT !.events = events, !.pc = "running"]

\* Lines 94-98: the call with its events built, returned with null when
\* they are fewer than 3.
called(run, events) ==
  IF Len(events) < MinEvents
  THEN [run EXCEPT !.events = events, !.pc = "done", !.result = Null]
  ELSE [run EXCEPT !.events = events, !.pc = "running"]

\* The call as far as its next yield or its return.
advanced(eng, run, c) ==
  IF run.pc = "done" THEN run
  ELSE runSegment(run, fitSamples(eng, eventsOf(run, c), run.tape, <<>>))

\* A call not yet made.  args will hold the arrays as they are when the
\* call is made.
newRun(nboot, conf, tape) ==
  [pc |-> "idle", nboot |-> nboot, conf |-> conf, tape |-> tape,
   args |-> None, events |-> <<>>, i |-> 0, boots |-> <<>>,
   result |-> Undefined, draws |-> 0, fits |-> 0, yields |-> 0,
   between |-> {}]

\* The calls rs once a task other than the call r has taken a step of the
\* kind k: the calls at a yield have it between two of their segments.
noted(rs, k, r) ==
  [q \in 1..Len(rs) |->
     IF q # r /\ rs[q].pc = "yielded"
     THEN [rs[q] EXCEPT !.between = @ \cup {k}] ELSE rs[q]]

\* The call made on the arrays of the caller c
withArgs(run, c) ==
  [run EXCEPT !.args = [set |-> TRUE, failures |-> c.failures,
                        susp |-> c.susp]]

\* The caller of the dataset d, who has not written to its arrays
callerOf(d) ==
  [set |-> TRUE, failures |-> d.failures, susp |-> d.susp, writes |-> 0]

\* --- inputs of bootstrapCI ---
MaxBoot == 2
NBoots == 0..MaxBoot \cup {YieldEvery + 1}

Confs == { FDiv(FInt(9), FInt(10)), FDiv(FInt(1), FInt(2)) }

\* Datasets of fewer than three events, of three, and of four; with
\* suspensions; with infinite times.
BootDatasets ==
  { [failures |-> <<>>, susp |-> <<>>],
    [failures |-> <<FInt(1), FInt(3)>>, susp |-> <<>>],
    [failures |-> <<FInt(1), FInt(3)>>, susp |-> <<FInt(3)>>],
    [failures |-> <<FInt(3), FInt(1), FInt(2)>>, susp |-> <<FInt(1)>>],
    [failures |-> <<PInf, PInf, PInf>>, susp |-> <<>>],
    [failures |-> <<PInf, FInt(1)>>, susp |-> <<FInt(3)>>] }

\* Draws for n events: each index once, and every draw the last index.
Draws(n) == { [j \in 1..n |-> j - 1], [j \in 1..n |-> n - 1] }

MaxTape == 2
Tapes(n) == { t \in SeqsUpTo(Draws(n), MaxTape) : Len(t) = MaxTape }

InitBoot ==
  /\ engine \in Engines
  /\ \E d \in BootDatasets :
       /\ caller = callerOf(d)
       /\ \E nboot \in NBoots, conf \in Confs,
             tape \in Tapes(Len(d.failures) + Len(d.susp)) :
            runs = << newRun(nboot, conf, tape) >>
  /\ ParseIdle /\ NllIdle /\ NmIdle /\ FitIdle /\ CostIdle

\* The call bootstrapCI(failures, susp, nboot, conf) on the caller's
\* arrays, as far as its first await or its return.
BootCall(r) ==
  /\ runs[r].pc = "idle"
  /\ runs' = [noted(runs, "call", r) EXCEPT ![r] =
                advanced(engine,
                         called(withArgs(runs[r], caller),
                                eventsFrom(caller.failures, caller.susp)),
                         caller)]
  /\ UNCHANGED <<engine, caller, parseVars, nllVars, nmVars, fitVars,
                 costVars>>

\* The call resumed after its await, as far as the next await or its
\* return.
BootResume(r) ==
  /\ runs[r].pc = "yielded"
  /\ runs' = [noted(runs, "resume", r) EXCEPT ![r] =
                advanced(engine, runs[r], caller)]
  /\ UNCHANGED <<engine, caller, parseVars, nllVars, nmVars, fitVars,
                 costVars>>

NextBoot ==
  \/ \E r \in 1..Len(runs) : BootCall(r)
  \/ \E r \in 1..Len(runs) : BootResume(r)

SpecBoot == InitBoot /\ [][NextBoot]_vars

\* --- two calls of bootstrapCI and the tasks that run at their yields ---
MaxWrites == 1

YieldDataset == [failures |-> <<FInt(1), FInt(3)>>, susp |-> <<FInt(3)>>]

\* The first call makes YieldEvery + 1 replicates and yields twice; the
\* second makes MaxBoot and yields once.  The replicates of the first draw
\* every event once, those of the second the first event twice and the
\* second once.
InitYield ==
  /\ engine = "insertion"
  /\ caller = callerOf(YieldDataset)
  /\ runs = << newRun(YieldEvery + 1, FDiv(FInt(9), FInt(10)),
                      << <<0, 1, 2>> >>),
               newRun(MaxBoot, FDiv(FInt(9), FInt(10)), << <<0, 0, 1>> >>) >>
  /\ ParseIdle /\ NllIdle /\ NmIdle /\ FitIdle /\ CostIdle

\* Another task writes to the caller's arrays while a call is at its
\* yield: it replaces the first failure time.
CallerWrites ==
  /\ \E r \in 1..Len(runs) : runs[r].pc = "yielded"
  /\ caller.writes < MaxWrites
  /\ caller' = [caller EXCEPT !.failures[1] = FInt(5), !.writes = @ + 1]
  /\ runs' = noted(runs, "write", 0)
  /\ UNCHANGED <<engine, parseVars, nllVars, nmVars, fitVars, costVars>>

\* Another task fits the caller's arrays while a call is at its yield.
FitAtYield ==
  /\ \E r \in 1..Len(runs) : runs[r].pc = "yielded"
  /\ ~fitRes.set
  /\ fitArgs' = [set |-> TRUE, failures |-> caller.failures,
                 susp |-> caller.susp]
  /\ fitRes' = fitCall(engine, caller.failures, caller.susp,
                       startPoint(caller.failures), fitOptions)
  /\ runs' = noted(runs, "fit", 0)
  /\ UNCHANGED <<engine, caller, parseVars, nllVars, nmVars, costVars>>

NextYield ==
  \/ \E r \in 1..Len(runs) : BootCall(r)
  \/ \E r \in 1..Len(runs) : BootResume(r)
  \/ CallerWrites
  \/ FitAtYield

SpecYield == InitYield /\ [][NextYield]_vars

\* ------------------------------------------------------------------------
\* integrateR and the cost rates
\* ------------------------------------------------------------------------
\* The default of n (line 122) and the n of the cost rates (lines 133, 138
\* and 144)
DefaultN == 400
CostN == 300

\* Rfunc(t, ...args) for the integrands of the model: the constant 1 and
\* R_weibull
Apply(Rfunc, t, args) ==
  IF Rfunc = "one" THEN FInt(1) ELSE R_weibull(t, args[1], args[2])

\* Line 126
nodeAt(c, i) == FAdd(c.a, FMul(FInt(i), c.h))

RECURSIVE sumR(_, _, _, _)
\* Lines 125-128 for i from lo to hi on the sum s so far, for the call
\* c = (Rfunc, args, a, h): the first half of the indices, then the rest.
\* (A sum that is NaN stays NaN.)
sumR(c, s, lo, hi) ==
  IF s = NaN \/ lo > hi THEN s
  ELSE IF lo = hi THEN FAdd(s, Apply(c.Rfunc, nodeAt(c, lo), c.args))
  ELSE sumR(c, sumR(c, s, lo, (lo + hi) \div 2), (lo + hi) \div 2 + 1, hi)

\* Lines 124-129 with the step h
integrated(c, n) == FMul(sumR(c, Zero, 0, n), c.h)

\* n, written as the arguments given after b: 400 when there is none
nOf(n) == IF n = <<>> THEN DefaultN ELSE n[1]

\* integrateR(Rfunc, args, a, b, n)
integrateR(Rfunc, args, a, b, n) ==
  integrated([Rfunc |-> Rfunc, args |-> args, a |-> a,
              h |-> FDiv(FSub(b, a), FInt(nOf(n)))], nOf(n))

\* The integral of lines 133, 138 and 144
integralTo(t, beta, eta) ==
  integrateR("R_weibull", <<beta, eta>>, Zero, t, <<CostN>>)

\* CPM_num(t, beta, eta, C_PM)
CPM_num(t, beta, eta, C_PM) ==
  IF FLe(t, Zero) THEN PInf
  ELSE FDiv(FMul(C_PM, R_weibull(t, beta, eta)), integralTo(t, beta, eta))

\* CCM_num(t, beta, eta, C_CM)
CCM_num(t, beta, eta, C_CM) ==
  IF FLe(t, Zero) THEN PInf
  ELSE FDiv(FMul(C_CM, FSub(FInt(1), R_weibull(t, beta, eta))),
            integralTo(t, beta, eta))

\* CPUT_num(t, beta, eta, C_PM, C_CM)
CPUT_num(t, beta, eta, C_PM, C_CM) ==
  IF FLe(t, Zero) THEN PInf
  ELSE FDiv(FAdd(FMul(C_PM, R_weibull(t, beta, eta)),
                 FMul(C_CM, FSub(FInt(1), R_weibull(t, beta, eta)))),
            integralTo(t, beta, eta))

\* --- inputs of integrateR and of the cost rates ---
MaxN == 4

Integrands ==
  { [Rfunc |-> "one", args |-> <<>>],
    [Rfunc |-> "R_weibull", args |-> <<FInt(1), FInt(2)>>],
    [Rfunc |-> "R_weibull", args |-> <<FInt(2), FInt(1)>>] }

IntegrateCalls ==
  { [fn |-> "integrateR", Rfunc |-> g.Rfunc, args |-> g.args, a |-> a,
     b |-> b, n |-> n] :
      g \in Integrands, a \in {Zero, FInt(1)},
      b \in {FInt(1), FInt(2), FInt(3)},
      n \in {<<>>} \cup { <<k>> : k \in 1..MaxN } }

RateCalls ==
  { [fn |-> fn, t |-> t, beta |-> q[1], eta |-> q[2], C_PM |-> FInt(1),
     C_CM |-> FInt(5)] :
      fn \in {"CPM_num", "CCM_num", "CPUT_num"},
      t \in {FInt(-1), Zero, FInt(1), FInt(2)},
      q \in { <<FInt(1), FInt(2)>>, <<FInt(2), FInt(1)>> } }

InitCost ==
  /\ engine = "insertion"
  /\ \E call \in IntegrateCalls \cup RateCalls :
       cost = [set |-> TRUE, pc |-> "called", call |-> call,
               result |-> Undefined]
  /\ ParseIdle /\ NllIdle /\ NmIdle /\ FitIdle /\ BootIdle

\* Whether the call fn has been made and has not returned
costCalled(fn) == cost.set /\ cost.pc = "called" /\ cost.call.fn = fn

\* The call of cost returned with v
costReturned(v) == [cost EXCEPT !.pc = "returned", !.result = v]

Integrate ==
  /\ costCalled("integrateR")
  /\ cost' = costReturned(integrateR(cost.call.Rfunc, cost.call.args,
                                     cost.call.a, cost.call.b, cost.call.n))
  /\ UNCHANGED <<engine, parseVars, nllVars, nmVars, fitVars, bootVars>>

CostPM ==
  /\ costCalled("CPM_num")
  /\ cost' = costReturned(CPM_num(cost.call.t, cost.call.beta, cost.call.eta,
                                  cost.call.C_PM))
  /\ UNCHANGED <<engine, parseVars, nllVars, nmVars, fitVars, bootVars>>

CostCM ==
  /\ costCalled("CCM_num")
  /\ cost' = costReturned(CCM_num(cost.call.t, cost.call.beta, cost.call.eta,
                                  cost.call.C_CM))
  /\ UNCHANGED <<engine, parseVars, nllVars, nmVars, fitVars, bootVars>>

CostPUT ==
  /\ costCalled("CPUT_num")
  /\ cost' = costReturned(CPUT_num(cost.call.t, cost.call.beta,
                                   cost.call.eta, cost.call.C_PM,
                                   cost.call.C_CM))
  /\ UNCHANGED <<engine, parseVars, nllVars, nmVars, fitVars, bootVars>>

NextCost == Integrate \/ CostPM \/ CostCM \/ CostPUT

SpecCost == InitCost /\ [][NextCost]_vars

\* ------------------------------------------------------------------------
\* Properties of parseTTF
\* ------------------------------------------------------------------------
\* A field without its white space.
Unspaced(f) == SelectSeq(f, LAMBDA c : c \notin WhiteSpace)

\* Whether a line of fields is a record of the kind "F" or "S": at least
\* two fields, a first field that parses to a number, and that letter, in
\* either case, as its second field.
IsRecord(line, kind) ==
  /\ Len(line) >= 2
  /\ ~IsNaN(parseFloat(line[1]))
  /\ Unspaced(line[2]) \in { <<kind>>, <<IF kind = "F" THEN "f" ELSE "s">> }

\* The times of the records of a kind, in the order of the lines.
TimesOf(r, kind) ==
  LET lines == SelectSeq(r, LAMBDA line : IsRecord(line, kind))
  IN [i \in 1..Len(lines) |-> parseFloat(lines[i][1])]

\* C1: parseTTF returns, for every text, as failures the times of the lines
\* with at least two comma-separated fields, a numeric first field and F
\* or f as second field, and as suspensions those with S or s, each in the
\* order of the lines; every other line (blank, a single field, a first
\* field that is no number, another code) is skipped.
C1_ParseRecords ==
  parsed.set =>
    /\ parsed.failures = TimesOf(recs, "F")
    /\ parsed.susp = TimesOf(recs, "S")

\* The example of the specification: "100,F\n150,F\n200,S\n80,F" gives
\* failures 100, 150, 80 and suspensions 200.
C1_Witness ==
  /\ parsed.set
  /\ recs = ExampleRecs
  /\ parsed.failures = <<FInt(100), FInt(150), FInt(80)>>
  /\ parsed.susp = <<FInt(200)>>


\* ------------------------------------------------------------------------
\* Properties of negLogLik
\* ------------------------------------------------------------------------
\* C2: whenever beta <= 1e-6 or eta <= 1e-6, negLogLik returns 1e12, a
\* finite number that is at least 1e11, and evaluates no observation term,
\* whatever the dataset holds.
C2_SentinelInInvalidRegion ==
  (nllRes.set /\ (FLe(nllArgs.params[1], FDiv(FInt(1), FInt(1000000)))
                   \/ FLe(nllArgs.params[2], FDiv(FInt(1), FInt(1000000)))))
    => /\ nllRes.value = FMul(FInt(1000000), FInt(1000000))
       /\ isFinite(nllRes.value)
       /\ FLe(FMul(FInt(100000), FInt(1000000)), nllRes.value)
       /\ nllRes.terms = 0

\* A call with beta = 0 on a dataset that holds a negative failure time.
C2_Witness ==
  /\ nllRes.set
  /\ nllArgs.params[1] = Zero
  /\ nllArgs.failures # <<>>
  /\ nllArgs.failures[1] = FInt(-1)
  /\ nllRes.value = Sentinel

\* ------------------------------------------------------------------------
\* Properties of nelderMead
\* ------------------------------------------------------------------------
\* No value of fx is strictly below one that stands before it.
Ascending(fx) == \A i, j \in 1..3 : i < j => ~FLt(fx[j], fx[i])

\* (a + b) / 2 and a + c * (b - a) on one coordinate
Mid(a, b) == FDiv(FAdd(a, b), FInt(2))
Along(a, c, b) == FAdd(a, FMul(c, FSub(b, a)))

\* The point between the best two vertices of the sorted simplex s
Centre(s) == << Mid(s[1][1], s[2][1]), Mid(s[1][2], s[2][2]) >>

\* C8: in every iteration the vertices are sorted by objective ascending;
\* the worst is reflected through the centroid of the other two; a
\* reflection strictly better than the best leads to the expansion and the
\* better of the two replaces the worst; else a reflection strictly better
\* than the second-worst replaces the worst; else the contraction replaces
\* the worst if strictly better than it; otherwise the two non-best
\* vertices move halfway toward the best.  One outcome per iteration, and
\* only the worst vertex changes unless the simplex shrinks.
C8_IterationProtocol ==
  (nm.set /\ "last" \in DOMAIN nm) =>
    LET r == nm.last
        c == Centre(r.sorted)
    IN /\ Ascending(r.sfx)
       /\ r.xr = << FAdd(c[1], FSub(c[1], r.sorted[3][1])),
                    FAdd(c[2], FSub(c[2], r.sorted[3][2])) >>
       /\ r.step \in {"expand", "reflect", "contract", "shrink"}
       /\ FLt(r.fxr, r.sfx[1]) => r.step \in {"expand", "reflect"}
       /\ r.step = "expand" =>
            /\ FLt(r.fxr, r.sfx[1])
            /\ r.simplex[3] = << Along(c[1], FInt(2), r.xr[1]),
                                 Along(c[2], FInt(2), r.xr[2]) >>
            /\ FLt(r.fx[3], r.fxr)
       /\ r.step = "reflect" =>
            /\ FLt(r.fxr, r.sfx[2])
            /\ r.simplex[3] = r.xr /\ r.fx[3] = r.fxr
       /\ (~FLt(r.fxr, r.sfx[1]) /\ FLt(r.fxr, r.sfx[2])) => r.step = "reflect"
       /\ r.step = "contract" =>
            /\ ~FLt(r.fxr, r.sfx[2])
            /\ r.simplex[3] = << Along(c[1], Rho, r.sorted[3][1]),
                                 Along(c[2], Rho, r.sorted[3][2]) >>
            /\ FLt(r.fx[3], r.sfx[3])
       /\ r.step = "shrink" =>
            /\ ~FLt(r.fxr, r.sfx[2])
            /\ r.simplex[1] = r.sorted[1]
            /\ \A i \in 2..3 : \A k \in 1..2 :
                 r.simplex[i][k] = Along(r.sorted[1][k], Sigma, r.sorted[i][k])
       /\ r.step # "shrink" =>
            /\ r.simplex[1] = r.sorted[1] /\ r.simplex[2] = r.sorted[2]
            /\ r.fx[1] = r.sfx[1] /\ r.fx[2] = r.sfx[2]

\* C9: a call runs at most maxIter iterations (2000 when none is given) and
\* stops at the end of the first iteration whose values have a standard
\* deviation below tol (1e-6 when none is given); the point returned is a
\* vertex of the final simplex, fx is its value, and no vertex of the final
\* simplex has a value below it.
C9_ReturnsLowestVertex ==
  nm.set =>
    /\ nm.iter <= (IF nm.options.maxIter = 0 THEN 2000 ELSE nm.options.maxIter)
    /\ nm.brk => FLt(spread(nm.fx),
                     IF IsNaN(nm.options.tol) THEN FDiv(FInt(1), FInt(1000000))
                     ELSE nm.options.tol)
    /\ nm.pc = "returned" =>
         /\ \E i \in 1..3 : /\ nm.result.x = nm.simplex[i]
                            /\ nm.result.fx = nm.fx[i]
         /\ \A i \in 1..3 : ~FLt(nm.fx[i], nm.result.fx)

\* ------------------------------------------------------------------------
\* Properties of fitWeibull
\* ------------------------------------------------------------------------
RECURSIVE Total(_)
\* The sum of the times q, added from the left to 0
Total(q) == IF q = <<>> THEN Zero ELSE FAdd(Total(SubSeq(q, 1, Len(q) - 1)), q[Len(q)])

\* The mean of the times q, of which there is at least one
Mean(q) == FDiv(Total(q), FInt(Len(q)))

\* The call was made with tolerance 1e-8 and at most 1500 iterations, from
\* a point with beta0 = 1.5.
FitCallShape ==
  /\ fitRes.x0[1] = FDiv(FInt(3), FInt(2))
  /\ fitRes.options.tol = FDiv(FInt(1), FInt(100000000))
  /\ fitRes.options.maxIter = 1500

\* C4, as stated: the beta and eta that fitWeibull returns are each at
\* least 1e-6, whatever vertex the optimizer returned.
C4_AtLeastFloor ==
  fitRes.set =>
    /\ FLe(FDiv(FInt(1), FInt(1000000)), fitRes.beta)
    /\ FLe(FDiv(FInt(1), FInt(1000000)), fitRes.eta)

\* Math.max(1e-6, v) for a coordinate v of the optimizer's vertex: not a
\* number when v is not, and at least 1e-6 otherwise.
FloorOrNaN(v, out) ==
  IF IsNaN(v) THEN IsNaN(out)
  ELSE /\ FLe(FDiv(FInt(1), FInt(1000000)), out)
       /\ (FLe(FDiv(FInt(1), FInt(1000000)), v) => out = v)

\* C4, amended: the beta and eta that fitWeibull returns are each at least
\* 1e-6, except that a coordinate of the optimizer's vertex that is NaN is
\* returned as NaN; neither is ever zero or negative.
C4_AtLeastFloorOrNaN ==
  fitRes.set =>
    /\ FloorOrNaN(fitRes.res.x[1], fitRes.beta)
    /\ FloorOrNaN(fitRes.res.x[2], fitRes.eta)
    /\ ~FLe(fitRes.beta, Zero) /\ ~FLe(fitRes.eta, Zero)

\* A fit of the single failure time -1: the optimizer returns its start
\* point, whose eta is -1, and the eta returned is the floor.
C4_Witness ==
  /\ fitRes.set
  /\ fitArgs.failures = <<FInt(-1)>>
  /\ FLt(fitRes.res.x[2], Zero)
  /\ fitRes.eta = FDiv(FInt(1), FInt(1000000))

\* C10, as stated: the optimizer starts at beta0 = 1.5 and at eta0 = the mean
\* of the failure times whenever there is a failure, and at eta0 = 1000
\* only when there is none; it is called with tolerance 1e-8 and at most
\* 1500 iterations.
C10_StartsAtMean ==
  fitRes.set =>
    /\ FitCallShape
    /\ fitRes.x0[2] = IF Len(fitArgs.failures) >= 1
                      THEN Mean(fitArgs.failures) ELSE FInt(1000)

\* C10, amended: eta0 is the mean of the failure times when there is a
\* failure and the mean is neither 0 nor NaN; it is 1000 when there is no
\* failure and also when the mean is 0 or NaN.
C10_StartsAtMeanOrFallback ==
  fitRes.set =>
    /\ FitCallShape
    /\ fitRes.x0[2] =
         IF /\ Len(fitArgs.failures) >= 1
            /\ ~IsNaN(Mean(fitArgs.failures))
            /\ Mean(fitArgs.failures) # Zero
         THEN Mean(fitArgs.failures) ELSE FInt(1000)

\* A fit of the failure times 1 and 3, started at eta0 = 2.
C10_Witness ==
  /\ fitRes.set
  /\ fitArgs.failures = <<FInt(1), FInt(3)>>
  /\ fitRes.x0 = << FDiv(FInt(3), FInt(2)), FInt(2) >>

\* ------------------------------------------------------------------------
\* Properties of bootstrapCI
\* ------------------------------------------------------------------------
\* The number of observations the caller holds
Observations == Len(caller.failures) + Len(caller.susp)

\* C3: a call with fewer than 3 observations returns null, whatever nboot
\* and conf, having made no draw, no fit and no yield; a call with 3 or
\* more returns an object with the two intervals and the raw samples,
\* never null.
C3_NullIffTooFew ==
  \A r \in 1..Len(runs) :
    /\ runs[r].pc = "yielded" => Observations >= 3
    /\ runs[r].pc = "done" =>
         IF Observations < 3
         THEN /\ runs[r].result = Null
              /\ runs[r].draws = 0 /\ runs[r].fits = 0 /\ runs[r].yields = 0
         ELSE /\ runs[r].result # Null
              /\ DOMAIN runs[r].result = {"null", "beta_ci", "eta_ci", "raw"}
              /\ ~runs[r].result.null

\* A call with two observations and nboot = 51 that has returned null.
C3_Witness ==
  /\ Len(runs) = 1 /\ runs[1].pc = "done"
  /\ Observations = 2
  /\ runs[1].nboot = 51
  /\ runs[1].result = Null

\* C6: in the result of a call with at least 3 observations, nboot >= 1 and
\* conf in (0,1), with N replicates kept: the low index max(0,
\* floor((1-conf)/2 * N)) and the high index min(N-1, ceil((1-(1-conf)/2)
\* * N) - 1) lie in 0..N-1, the low one is not above the high one, and each
\* interval is the pair of the sorted kept values at these indices, the
\* first not above the second.
C6_PercentileIndices ==
  \A r \in 1..Len(runs) :
    (runs[r].pc = "done" /\ runs[r].result # Null /\ runs[r].nboot >= 1) =>
      LET N    == Len(runs[r].result.raw)
          half == FDiv(FSub(FInt(1), runs[r].conf), FInt(2))
          lo   == Max(0, FFloor(FMul(half, FInt(N))))
          hi   == Min(N - 1, FCeil(FMul(FSub(FInt(1), half), FInt(N))) - 1)
      IN /\ lo \in 0..(N - 1) /\ hi \in 0..(N - 1) /\ lo <= hi
         /\ \A k \in 1..2 :
              LET ci == IF k = 1 THEN runs[r].result.beta_ci
                        ELSE runs[r].result.eta_ci
                  kept == { runs[r].result.raw[j][k] : j \in 1..N }
              IN /\ ci[1] \in kept /\ ci[2] \in kept
                 /\ FLe(ci[1], ci[2])
                 /\ Cardinality({ j \in 1..N :
                       FLt(runs[r].result.raw[j][k], ci[1]) }) <= lo
                 /\ Cardinality({ j \in 1..N :
                       FLt(ci[2], runs[r].result.raw[j][k]) }) <= N - 1 - hi

RECURSIVE unyielded(_, _)
\* The loop of line 99 from replicate run.i to the return with no await:
\* nothing runs between two replicates.
unyielded(run, fits) ==
  IF run.i >= run.nboot THEN returned(run)
  ELSE unyielded(replicated(run, fits[(run.i % Len(run.tape)) + 1]), fits)

\* The call of run made again on the arrays as they were when run was
\* called, with the same draws
recalled(run) ==
  called(withArgs(newRun(run.nboot, run.conf, run.tape), run.args),
         eventsFrom(run.args.failures, run.args.susp))

\* That call run alone to its return
alone(eng, again) ==
  IF again.pc = "done" THEN again
  ELSE unyielded(again, fitSamples(eng, again.events, again.tape, <<>>))

sameOutcome(run, ref) ==
  /\ run.result = ref.result
  /\ run.boots = ref.boots
  /\ run.draws = ref.draws /\ run.fits = ref.fits

Trapezoid(c, b, n) ==
  FMul(c.h,
       FAdd(sumR(c, FDiv(Apply(c.Rfunc, c.a, c.args), FInt(2)), 1, n - 1),
            FDiv(Apply(c.Rfunc, b, c.args), FInt(2))))

TrapezoidOf(call) ==
  Trapezoid([Rfunc |-> call.Rfunc, args |-> call.args, a |-> call.a,
             h |-> FDiv(FSub(call.b, call.a), FInt(nOf(call.n)))],
            call.b, nOf(call.n))

\* x is y up to a sixteenth of y: further than the rounding of the sums
\* of the model takes them apart
Near(x, y) == FLe(FAbs(FSub(x, y)), FDiv(FAbs(y), FInt(16)))

\* The cost rate of a call from the integral it divides by
RateFrom(call, R, integral) ==
  IF call.fn = "CPM_num" THEN FDiv(FMul(call.C_PM, R), integral)
  ELSE IF call.fn = "CCM_num"
       THEN FDiv(FMul(call.C_CM, FSub(FInt(1), R)), integral)
  ELSE FDiv(FAdd(FMul(call.C_PM, R), FMul(call.C_CM, FSub(FInt(1), R))),
            integral)

\* C5: integrateR returns the value of the trapezoidal rule over n equal
\* subintervals of [a, b], and a cost rate at t > 0 divides by the value
\* integrateR returns for a = 0, b = t.
C5_TrapezoidalRule ==
  (cost.set /\ cost.pc = "returned") =>
    IF cost.call.fn = "integrateR"
    THEN Near(cost.result, TrapezoidOf(cost.call))
    ELSE FLt(Zero, cost.call.t) =>
           cost.result =
             RateFrom(cost.call,
                      R_weibull(cost.call.t, cost.call.beta, cost.call.eta),
                      integrateR("R_weibull",
                                 <<cost.call.beta, cost.call.eta>>, Zero,
                                 cost.call.t, <<CostN>>))

=============================================================================
